---- MODULE Spec2Model ----
(***************************************************************************)
(* Model of app.py (date-course recommendation chatbot): the date/time     *)
(* extractor, the link and rating splices, the itinerary parser with the   *)
(* timeline builder, and the per-turn session handler.                     *)
(*                                                                         *)
(* Texts are sequences of tokens.  A token stands for a piece of text that *)
(* every regular expression of the program treats as a unit:               *)
(*   "NL"  newline              "SP"  one space                            *)
(*   "H3"  "### **"             "CN"  "[코스 <digits>]"                    *)
(*   "ACT" "🎯 내용:"           "RAT" "⭐ 별점:"                           *)
(*   "LNK" "🔗 네이버 링크:"                                               *)
(*   "PLACE" "https://place.naver.com/"                                    *)
(*   "MAP"   "https://map.naver.com/p/search/"                             *)
(*   "a" an ASCII letter, "k" a Hangul syllable, "LP" "(", "RP" ")",       *)
(*   "ST" "*", "HASH" "#", "r0"/"r1" rating texts, "BS" a rating text that *)
(*   holds a backslash escape re.sub rejects, "x" any other word,          *)
(*   "%..." the percent-encoding of a token.                               *)
(* Activity and request words are romanised (the Hangul is in comments).   *)
(***************************************************************************)
EXTENDS Integers, Sequences, FiniteSets, TLC

VARIABLES
    pc,                   \* position of the running handler
    prompt,               \* the request text of the turn
    today,                \* weekday of datetime.now(): 0 = Monday .. 6 = Sunday
    date_str,             \* extract_date_time's date
    time_str,             \* extract_date_time's time, the timeline's start
    promptKind,           \* which prompt template the turn sent to the model
    response,             \* response.text of the model
    response_with_links,  \* update_place_links(response.text)
    updated_response,     \* update_place_ratings(response_with_links)
    fetched,              \* urls handed to get_place_info, in call order
    sleeps,               \* course index after whose processing time.sleep(1) ran
    timeline,             \* create_timeline(updated_response, time_str)
    messages,             \* st.session_state.messages
    last_recommendations  \* st.session_state.last_recommendations

vars == <<pc, prompt, today, date_str, time_str, promptKind, response,
          response_with_links, updated_response, fetched, sleeps, timeline,
          messages, last_recommendations>>

\* Python's None: a value that no text equals.
None == <<"None">>

\* ------------------------------------------------------------------------
\* Regular expressions (module re): a pattern is a sequence of elements, each
\* a repetition of a character class or a lookahead; matching is Python's
\* backtracking search: leftmost start, greedy longest first, lazy shortest
\* first.
\* ------------------------------------------------------------------------

\* One repetition element: class cls (negated when neg), min..max times
\* (max = -1: unbounded), greedy or lazy, in capture group cap (0: none).
Rep(cls, neg, min, max, greedy, cap) ==
    [kind |-> "rep", cls |-> cls, neg |-> neg, min |-> min, max |-> max,
     greedy |-> greedy, cap |-> cap]

Lit(tok) == Rep({tok}, FALSE, 1, 1, TRUE, 0)

\* A literal inside capture group cap.
LitCap(tok, cap) == Rep({tok}, FALSE, 1, 1, TRUE, cap)

\* (?=<one of toks>|$): "$" without re.MULTILINE holds at the end of the
\* string and just before a newline that ends the string.
Ahead(toks) ==
    [kind |-> "ahead", cls |-> toks, neg |-> FALSE, min |-> 0, max |-> 0,
     greedy |-> TRUE, cap |-> 0]

Whitespace == {"SP", "NL"}
Digit == {"0", "1", "2", "3", "4", "5", "6", "7", "8", "9"}

InCls(e, tok) == (tok \in e.cls) # e.neg

RECURSIVE RunLen(_, _, _, _)
\* How many tokens from pos on the element can take at most, n taken so far.
RunLen(t, pos, e, n) ==
    IF (e.max >= 0 /\ n >= e.max) \/ pos + n > Len(t) THEN n
    ELSE IF InCls(e, t[pos + n]) THEN RunLen(t, pos, e, n + 1)
    ELSE n

AheadOK(t, pos, e) ==
    \/ pos = Len(t) + 1
    \/ pos = Len(t) /\ t[pos] = "NL"
    \/ pos + 1 <= Len(t) /\ t[pos] = "H3" /\ t[pos + 1] = "CN"

NoMatch == [ok |-> FALSE, start |-> 0, lens |-> <<>>]

RECURSIVE MatchFrom(_, _, _, _), TryRep(_, _, _, _, _, _)
\* The lengths the elements k.. of re take when matched at pos, or NoMatch.
MatchFrom(t, re, k, pos) ==
    IF k > Len(re) THEN [ok |-> TRUE, start |-> pos, lens |-> <<>>]
    ELSE IF re[k].kind = "ahead" THEN
        IF AheadOK(t, pos, re[k]) THEN
            LET r == MatchFrom(t, re, k + 1, pos)
            IN  IF r.ok THEN [ok |-> TRUE, start |-> pos, lens |-> <<0>> \o r.lens]
                ELSE NoMatch
        ELSE NoMatch
    ELSE
        LET run == RunLen(t, pos, re[k], 0)
        IN  IF run < re[k].min THEN NoMatch
            ELSE TryRep(t, re, k, pos, run,
                        IF re[k].greedy THEN run ELSE re[k].min)

TryRep(t, re, k, pos, run, n) ==
    LET r == MatchFrom(t, re, k + 1, pos + n)
    IN  IF r.ok THEN [ok |-> TRUE, start |-> pos, lens |-> <<n>> \o r.lens]
        ELSE IF re[k].greedy THEN
            IF n = re[k].min THEN NoMatch ELSE TryRep(t, re, k, pos, run, n - 1)
        ELSE
            IF n = run THEN NoMatch ELSE TryRep(t, re, k, pos, run, n + 1)

RECURSIVE SumTo(_, _)
SumTo(lens, k) == IF k = 0 THEN 0 ELSE lens[k] + SumTo(lens, k - 1)

\* Position just after the match.
MatchEnd(m) == m.start + SumTo(m.lens, Len(m.lens))

\* match.group(): the matched text.
GroupAll(t, m) == SubSeq(t, m.start, MatchEnd(m) - 1)

\* match.group(g): the text of capture group g (<<>> when it took nothing).
Group(t, re, m, g) ==
    LET ks == {k \in 1..Len(re) : re[k].cap = g}
    IN  IF ks = {} THEN <<>>
        ELSE LET first == CHOOSE k \in ks : \A j \in ks : k <= j
                 last == CHOOSE k \in ks : \A j \in ks : k >= j
             IN  SubSeq(t, m.start + SumTo(m.lens, first - 1),
                        m.start + SumTo(m.lens, last) - 1)

RECURSIVE Search(_, _, _)
\* re.search from position pos on: the leftmost match.
Search(t, re, pos) ==
    IF pos > Len(t) + 1 THEN NoMatch
    ELSE LET m == MatchFrom(t, re, 1, pos)
         IN  IF m.ok THEN m ELSE Search(t, re, pos + 1)

RECURSIVE FindAll(_, _, _)
\* re.findall: the successive non-overlapping matches (none of the patterns
\* below matches the empty string).
FindAll(t, re, pos) ==
    LET m == Search(t, re, pos)
    IN  IF ~m.ok THEN <<>>
        ELSE <<m>> \o FindAll(t, re, MatchEnd(m))

RECURSIVE Sub(_, _, _, _)
\* re.sub(re, repl, t): every non-overlapping match replaced by repl.
Sub(t, re, repl, pos) ==
    LET m == Search(t, re, pos)
    IN  IF ~m.ok THEN SubSeq(t, pos, Len(t))
        ELSE SubSeq(t, pos, m.start - 1) \o repl \o Sub(t, re, repl, MatchEnd(m))

RECURSIVE LStrip(_)
LStrip(s) == IF s # <<>> /\ Head(s) \in Whitespace THEN LStrip(Tail(s)) ELSE s

RECURSIVE RStrip(_)
RStrip(s) ==
    IF s # <<>> /\ s[Len(s)] \in Whitespace THEN RStrip(SubSeq(s, 1, Len(s) - 1))
    ELSE s

\* str.strip()
Strip(s) == RStrip(LStrip(s))

RECURSIVE Concat(_)
\* ''.join(list)
Concat(ss) == IF ss = <<>> THEN <<>> ELSE Head(ss) \o Concat(Tail(ss))

\* ------------------------------------------------------------------------
\* search_place, update_place_links
\* ------------------------------------------------------------------------

\* r'(### \*\*\[코스 \d+\].*?)(?=### \*\*\[코스 \d+\]|$)' with re.DOTALL
CourseRe ==
    <<LitCap("H3", 1), LitCap("CN", 1), Rep({}, TRUE, 0, -1, FALSE, 1),
      Ahead({"H3"})>>

\* re.findall(CourseRe, recommendations, re.DOTALL): the course blocks.
Courses(recommendations) ==
    LET ms == FindAll(recommendations, CourseRe, 1)
    IN  [i \in 1..Len(ms) |-> Group(recommendations, CourseRe, ms[i], 1)]

\* r'\([^)]*\)\**'
ParenRe ==
    <<Lit("LP"), Rep({"RP"}, TRUE, 0, -1, TRUE, 0), Lit("RP"),
      Rep({"ST"}, FALSE, 0, -1, TRUE, 0)>>

\* Characters urllib.parse.quote leaves as they are (letters, digits, "_.-~/").
QuoteSafe == {"a", "x"} \cup Digit

QuoteTok(tok) == IF tok \in QuoteSafe THEN tok ELSE "%" \o tok

\* urllib.parse.quote(s)
Quote(s) == [i \in 1..Len(s) |-> QuoteTok(s[i])]

\* search_place(query): the map-search url of the cleaned query.
search_place(query) ==
    LET clean_query == Strip(Sub(query, ParenRe, <<>>, 1))
    IN  <<"MAP">> \o Quote(clean_query)

\* r'\[코스 \d+\]\s*([^\n]+)'
NameRe ==
    <<Lit("CN"), Rep(Whitespace, FALSE, 0, -1, TRUE, 0),
      Rep({"NL"}, TRUE, 1, -1, TRUE, 1)>>

\* r'🔗 네이버 링크:.*?\n'
LinkLineRe == <<Lit("LNK"), Rep({"NL"}, TRUE, 0, -1, FALSE, 0), Lit("NL")>>

\* The body of update_place_links' loop for one course block.
UpdateCourseLink(course) ==
    LET name_match == Search(course, NameRe, 1)
    IN  IF name_match.ok THEN
            LET place_name == Strip(Group(course, NameRe, name_match, 1))
                search_url == search_place(place_name)
            IN  Sub(course, LinkLineRe, <<"LNK", "SP">> \o search_url \o <<"NL">>, 1)
        ELSE course

update_place_links(recommendations) ==
    LET courses == Courses(recommendations)
    IN  Concat([i \in 1..Len(courses) |-> UpdateCourseLink(courses[i])])

\* ------------------------------------------------------------------------
\* get_place_info, update_place_ratings
\* ------------------------------------------------------------------------

\* What the listing page gives: "fail" (request error, non-2xx status or no
\* rating element), "rating" (a rating text), "escape" (a rating text that
\* holds a backslash escape re.sub does not accept in a replacement).
FetchOutcomes == {"fail", "rating", "escape"}

\* get_place_info(url) when the page gives outcome.
get_place_info(url, outcome) ==
    IF url = <<>> \/ url[1] # "PLACE" THEN None
    ELSE IF outcome = "rating" THEN <<"r1">>
    ELSE IF outcome = "escape" THEN <<"BS">>
    ELSE None

\* r'🔗 네이버 링크: (https://place\.naver\.com/[^\n]+)'
RatingUrlRe ==
    <<Lit("LNK"), Lit("SP"), LitCap("PLACE", 1), Rep({"NL"}, TRUE, 1, -1, TRUE, 1)>>

\* r'⭐ 별점: [^\n]+'
RatingLineRe == <<Lit("RAT"), Lit("SP"), Rep({"NL"}, TRUE, 1, -1, TRUE, 0)>>

\* re.sub raises re.error on a replacement template with a bad escape.
TemplateRaises(rating_info) == \E i \in 1..Len(rating_info) : rating_info[i] = "BS"

RECURSIVE RatingsLoop(_, _, _, _)
\* The for loop of update_place_ratings from course i on; st holds the
\* updated courses, the urls fetched and the courses slept after so far.
RatingsLoop(courses, fetch, i, st) ==
    IF i > Len(courses) THEN st
    ELSE
        LET course == courses[i]
            url_match == Search(course, RatingUrlRe, 1)
            url == Strip(Group(course, RatingUrlRe, url_match, 1))
            rating_info == get_place_info(url, fetch[i])
            calls == IF url_match.ok
                     THEN Append(st.fetched, [course |-> i, url |-> url])
                     ELSE st.fetched
        IN  IF url_match.ok /\ rating_info # None /\ TemplateRaises(rating_info)
            THEN [st EXCEPT !.fetched = calls, !.raised = TRUE]
            ELSE RatingsLoop(courses, fetch, i + 1,
                    [updated |-> Append(st.updated,
                        IF url_match.ok /\ rating_info # None
                        THEN Sub(course, RatingLineRe,
                                 <<"RAT", "SP">> \o rating_info, 1)
                        ELSE course),
                     fetched |-> calls,
                     sleeps |-> Append(st.sleeps, i),
                     raised |-> FALSE])

\* update_place_ratings(recommendations) when the page of course i gives
\* fetch[i]: the text returned, the urls fetched, the courses slept after.
update_place_ratings(recommendations, fetch) ==
    LET courses == Courses(recommendations)
        st == RatingsLoop(courses, fetch, 1,
                [updated |-> <<>>, fetched |-> <<>>, sleeps |-> <<>>,
                 raised |-> FALSE])
    IN  [text |-> IF st.raised THEN recommendations ELSE Concat(st.updated),
         fetched |-> st.fetched,
         sleeps |-> st.sleeps]

\* ------------------------------------------------------------------------
\* create_timeline
\* ------------------------------------------------------------------------

\* DEFAULT_DURATIONS in insertion order: siksa 식사, dinner 디너, lunch 런치,
\* brunch 브런치, cafe 카페, suljip 술집, bar 바, sanchaek 산책, jeonsi 전시,
\* movie 영화, gongyeon 공연, shopping 쇼핑.
DEFAULT_DURATIONS ==
    <<<<"siksa", 90>>, <<"dinner", 90>>, <<"lunch", 60>>, <<"brunch", 60>>,
      <<"cafe", 60>>, <<"suljip", 90>>, <<"bar", 90>>, <<"sanchaek", 45>>,
      <<"jeonsi", 90>>, <<"movie", 120>>, <<"gongyeon", 120>>,
      <<"shopping", 90>>, <<"default", 60>>>>

\* str.lower() of one token: only ASCII letters have case.
LowerTok(tok) == IF tok = "DEFAULT" THEN "default" ELSE tok

\* key in tok, for the words of the model: 브런치 holds 런치, 바다 holds 바.
TokContains(tok, key) ==
    \/ tok = key
    \/ tok = "brunch" /\ key = "lunch"
    \/ tok = "bada" /\ key = "bar"

\* key in activity.lower()
KeyIn(key, activity) ==
    \E i \in 1..Len(activity) : TokContains(LowerTok(activity[i]), key)

RECURSIVE DurationFrom(_, _)
\* The duration loop of create_timeline from item k of DEFAULT_DURATIONS on.
DurationFrom(activity, k) ==
    IF k > Len(DEFAULT_DURATIONS) THEN 0
    ELSE IF KeyIn(DEFAULT_DURATIONS[k][1], activity) THEN DEFAULT_DURATIONS[k][2]
    ELSE DurationFrom(activity, k + 1)

Duration(activity) ==
    LET duration == DurationFrom(activity, 1)
    IN  IF duration = 0 THEN DEFAULT_DURATIONS[Len(DEFAULT_DURATIONS)][2]
        ELSE duration

\* r'\[코스 \d+\]\s*([^\n]+).*?🎯\s*내용:\s*([^\n]+)' with re.DOTALL
BackupPlaceRe ==
    <<Lit("CN"), Rep(Whitespace, FALSE, 0, -1, TRUE, 0),
      Rep({"NL"}, TRUE, 1, -1, TRUE, 1), Rep({}, TRUE, 0, -1, FALSE, 0),
      Lit("ACT"), Rep(Whitespace, FALSE, 0, -1, TRUE, 0),
      Rep({"NL"}, TRUE, 1, -1, TRUE, 2)>>

\* r'\[코스 \d+\]\s*([^\n]+).*?🎯\s*내용:\s*([^\n]+).*?🔗\s*네이버 링크:\s*([^\n]+)'
PlaceRe ==
    BackupPlaceRe \o
    <<Rep({}, TRUE, 0, -1, FALSE, 0), Lit("LNK"),
      Rep(Whitespace, FALSE, 0, -1, TRUE, 0), Rep({"NL"}, TRUE, 1, -1, TRUE, 3)>>

\* The places of create_timeline: the (name, activity, link) triples, stripped.
ParsePlaces(recommendations) ==
    LET ms == FindAll(recommendations, PlaceRe, 1)
        bs == FindAll(recommendations, BackupPlaceRe, 1)
    IN  IF ms # <<>> THEN
            [i \in 1..Len(ms) |->
                [name |-> Strip(Group(recommendations, PlaceRe, ms[i], 1)),
                 activity |-> Strip(Group(recommendations, PlaceRe, ms[i], 2)),
                 link |-> Strip(Group(recommendations, PlaceRe, ms[i], 3))]]
        ELSE
            [i \in 1..Len(bs) |->
                [name |-> Strip(Group(recommendations, BackupPlaceRe, bs[i], 1)),
                 activity |-> Strip(Group(recommendations, BackupPlaceRe, bs[i], 2)),
                 link |-> <<"HASH">>]]

\* datetime.strptime(start_time, "%H:%M") accepts the time.
StrptimeOK(start_time) ==
    start_time.hour \in 0..23 /\ start_time.minute \in 0..59

\* current_time.strftime('%H:%M') of a datetime minutes after midnight of
\* the day strptime gave.
Strftime(minutes) == [hour |-> (minutes \div 60) % 24, minute |-> minutes % 60]

RECURSIVE TimelineRowsAdvanceFirst(_, _, _)
\* TimelineRows with the clock advanced before the row is written.
TimelineRowsAdvanceFirst(places, i, current_time) ==
    IF i > Len(places) THEN <<>>
    ELSE <<[time |-> Strftime(current_time + Duration(places[i].activity)),
            activity |-> places[i].activity,
            name |-> places[i].name,
            link |-> places[i].link]>>
         \o TimelineRowsAdvanceFirst(places, i + 1,
                                     current_time + Duration(places[i].activity))

RECURSIVE TimelineRows(_, _, _)
\* The row loop of create_timeline from place i on, the clock at current_time.
TimelineRows(places, i, current_time) ==
    IF i > Len(places) THEN <<>>
    ELSE <<[time |-> Strftime(current_time),
            activity |-> places[i].activity,
            name |-> places[i].name,
            link |-> places[i].link]>>
         \o TimelineRows(places, i + 1, current_time + Duration(places[i].activity))

\* create_timeline(recommendations, start_time): the rows under the two
\* header lines, or the error text when strptime raises.
create_timeline(recommendations, start_time) ==
    IF ~StrptimeOK(start_time) THEN [ok |-> FALSE, rows |-> <<>>]
    ELSE [ok |-> TRUE,
          rows |-> TimelineRows(ParsePlaces(recommendations), 1,
                                start_time.hour * 60 + start_time.minute)]

\* ------------------------------------------------------------------------
\* extract_date_time
\* Request words: nyeon 년, wol 월 (month, Monday), il 일 (day, Sunday),
\* si 시, bun 분, COLON ":", oneul 오늘, naeil 내일, more 모레,
\* daeumju 다음주, ibeonju 이번주, yoil 요일, hwa 화, su 수, mok 목,
\* geum 금, to 토, ojeon 오전, ohu 오후, jeonyeok 저녁; digits are "0".."9".
\* ------------------------------------------------------------------------

Weekdays == {"wol", "hwa", "su", "mok", "geum", "to", "il"}

\* weekday_map
weekday_map(w) ==
    CASE w = "wol" -> 0 [] w = "hwa" -> 1 [] w = "su" -> 2 [] w = "mok" -> 3
      [] w = "geum" -> 4 [] w = "to" -> 5 [] w = "il" -> 6

DigitVal(tok) == CHOOSE d \in 0..9 : ToString(d) = tok

RECURSIVE IntOf(_)
\* int(s) of a digit string
IntOf(s) ==
    IF s = <<>> THEN 0
    ELSE 10 * IntOf(SubSeq(s, 1, Len(s) - 1)) + DigitVal(s[Len(s)])

WS0 == Rep(Whitespace, FALSE, 0, -1, TRUE, 0)

\* r'(\d{1,2})월\s*(\d{1,2})일', the part of the first date pattern after
\* its optional year group
MonthDayRe ==
    <<Rep(Digit, FALSE, 1, 2, TRUE, 2), Lit("wol"), WS0,
      Rep(Digit, FALSE, 1, 2, TRUE, 3), Lit("il")>>

\* date_patterns: each pattern as the alternatives the matcher tries in
\* order at one position (the optional group (\d{4}년\s*)? taken, then not).
date_patterns ==
    << << <<Rep(Digit, FALSE, 4, 4, TRUE, 1), LitCap("nyeon", 1),
            Rep(Whitespace, FALSE, 0, -1, TRUE, 1)>> \o MonthDayRe,
          MonthDayRe >>,
       << <<Lit("oneul")>> >>,
       << <<Lit("naeil")>> >>,
       << <<Lit("more")>> >>,
       << <<Lit("daeumju"), WS0, Rep(Weekdays, FALSE, 1, 1, TRUE, 1), Lit("yoil")>> >>,
       << <<Lit("ibeonju"), WS0, Rep(Weekdays, FALSE, 1, 1, TRUE, 1), Lit("yoil")>> >> >>

\* time_patterns, with what the loop reads off the pattern itself: whether
\* its text holds 오전 or 오후, and len(match.groups()).
time_patterns ==
    << [re |-> <<Rep(Digit, FALSE, 1, 2, TRUE, 1), Lit("si"), WS0,
                 Rep(Digit, FALSE, 0, 2, TRUE, 2), Rep({"bun"}, FALSE, 0, 1, TRUE, 0)>>,
        word |-> "", groups |-> 2],
       [re |-> <<Rep(Digit, FALSE, 1, 2, TRUE, 1), Lit("COLON"),
                 Rep(Digit, FALSE, 2, 2, TRUE, 2)>>,
        word |-> "", groups |-> 2],
       [re |-> <<Rep(Digit, FALSE, 1, 2, TRUE, 1), Rep({"si", "COLON"}, FALSE, 1, 1, TRUE, 0),
                 Rep(Digit, FALSE, 2, 2, TRUE, 2)>>,
        word |-> "", groups |-> 2],
       [re |-> <<Lit("ojeon"), WS0, Rep(Digit, FALSE, 1, 2, TRUE, 1), Lit("si")>>,
        word |-> "ojeon", groups |-> 1],
       [re |-> <<Lit("ohu"), WS0, Rep(Digit, FALSE, 1, 2, TRUE, 1), Lit("si")>>,
        word |-> "ohu", groups |-> 1] >>

\* word in s (the words of the model are single tokens)
Has(s, word) == \E i \in 1..Len(s) : s[i] = word

RECURSIVE SearchAlt(_, _, _, _)
\* re.search of a pattern given as alternatives alts: at each position the
\* first alternative that matches; [m, re] of the match.
SearchAlt(t, alts, pos, a) ==
    IF pos > Len(t) + 1 THEN [m |-> NoMatch, re |-> <<>>]
    ELSE IF a > Len(alts) THEN SearchAlt(t, alts, pos + 1, 1)
    ELSE LET m == MatchFrom(t, alts[a], 1, pos)
         IN  IF m.ok THEN [m |-> m, re |-> alts[a]]
             ELSE SearchAlt(t, alts, pos, a + 1)

\* A date string: today plus days (strftime of today + timedelta), or the
\* literal f"{year}-{month:02d}-{day:02d}" of a matched month and day, year
\* being the year text matched or <<"thisyear">> for today.year.
DateOffset(days) == [kind |-> "offset", days |-> days, year |-> <<>>, month |-> 0, day |-> 0]
DateYMD(year, month, day) ==
    [kind |-> "ymd", days |-> 0, year |-> year, month |-> month, day |-> day]

\* The body of the date loop for one match.
DateOfMatch(t, r, wd) ==
    LET g == GroupAll(t, r.m)
        g1 == Group(t, r.re, r.m, 1)
    IN  IF Has(g, "oneul") THEN DateOffset(0)
        ELSE IF Has(g, "naeil") THEN DateOffset(1)
        ELSE IF Has(g, "more") THEN DateOffset(2)
        ELSE IF Has(g, "daeumju") \/ Has(g, "ibeonju") THEN
            LET target_weekday == weekday_map(g1[1])
                current_weekday == wd
                days_until ==
                    IF Has(g, "daeumju") THEN target_weekday - current_weekday + 7
                    ELSE IF target_weekday - current_weekday <= 0
                         THEN target_weekday - current_weekday + 7
                         ELSE target_weekday - current_weekday
            IN  DateOffset(days_until)
        ELSE DateYMD(IF g1 # <<>> THEN SubSeq(g1, 1, Len(g1) - 1) ELSE <<"thisyear">>,
                     IntOf(Group(t, r.re, r.m, 2)),
                     IntOf(Group(t, r.re, r.m, 3)))

RECURSIVE DateLoop(_, _, _, _)
\* for pattern in date_patterns, from pattern k on.
DateLoop(t, wd, k, date) ==
    IF k > Len(date_patterns) THEN date
    ELSE LET r == SearchAlt(t, date_patterns[k], 1, 1)
         IN  DateLoop(t, wd, k + 1, IF r.m.ok THEN DateOfMatch(t, r, wd) ELSE date)

\* A time string f"{hour:02d}:{minute:02d}".
Time(hour, minute) == [hour |-> hour, minute |-> minute]

\* The hour the time loop computes for a match of pattern p.
HourOfMatch(t, p, m) ==
    LET h == IntOf(Group(t, p.re, m, 1))
    IN  IF p.word = "ojeon" THEN h
        ELSE IF p.word = "ohu" THEN h + 12
        ELSE IF h < 12 /\ Has(t, "ohu") THEN h + 12
        ELSE h

\* The minute the time loop computes for a match of pattern p.
MinuteOfMatch(t, p, m) ==
    IF p.groups > 1 /\ Group(t, p.re, m, 2) # <<>>
    THEN IntOf(Group(t, p.re, m, 2))
    ELSE 0

RECURSIVE TimeLoop(_, _, _)
\* for pattern in time_patterns, from pattern k on.
TimeLoop(t, k, time) ==
    IF k > Len(time_patterns) THEN time
    ELSE LET m == Search(t, time_patterns[k].re, 1)
         IN  TimeLoop(t, k + 1,
                IF m.ok THEN Time(HourOfMatch(t, time_patterns[k], m),
                                  MinuteOfMatch(t, time_patterns[k], m))
                ELSE time)

\* extract_date_time(prompt) on a day whose weekday is wd.
extract_date_time(t, wd) ==
    [date |-> DateLoop(t, wd, 1, DateOffset(0)),
     time |-> TimeLoop(t, 1, Time(17, 0))]

\* ------------------------------------------------------------------------
\* Inputs: model responses, requests, start times
\* ------------------------------------------------------------------------

MaxBlocks == 2
MaxStops == 3
MaxTurns == 3
MaxHour == 13

\* One course block as the system prompt asks the model to write it: the
\* header with the name, then the activity line (when activity is not
\* empty), the rating line (when rating), and the link line: link is "none",
\* "line" (ended by a newline) or "bare" (no newline after the url).
CourseBlock(name, activity, rating, link) ==
    <<"H3", "CN", "SP">> \o name \o <<"NL">>
    \o (IF activity # <<>> THEN <<"ACT", "SP">> \o activity \o <<"NL">> ELSE <<>>)
    \o (IF rating THEN <<"RAT", "SP", "r0", "NL">> ELSE <<>>)
    \o (IF link = "none" THEN <<>>
        ELSE IF link = "line" THEN <<"LNK", "SP", "PLACE", "a", "NL">>
        ELSE <<"LNK", "SP", "PLACE", "a">>)

\* "a" and "k (k)**": a plain name, and one with a parenthetical and the
\* emphasis markers that close the header.
Names == {<<"a">>, <<"k", "SP", "LP", "k", "RP", "ST", "ST">>}

Dinner == <<"k", "SP", "dinner">>

\* The texts of up to n blocks drawn from blocks.
BlockTexts(blocks, n) ==
    {Concat(bs) : bs \in UNION {[1..m -> blocks] : m \in 0..n}}

PipelineBlocks ==
    {CourseBlock(n, a, r, l) :
        n \in Names, a \in {<<>>, Dinner}, r \in BOOLEAN,
        l \in {"none", "line", "bare"}}

\* Model responses: narrative or nothing, then the blocks, then nothing or a
\* closing newline; never without any text.
ResponseTexts ==
    {pre \o body \o post :
        pre \in {<<>>, <<"x", "NL">>},
        body \in BlockTexts(PipelineBlocks, MaxBlocks),
        post \in {<<>>, <<"NL">>}}
    \ {<<>>, <<"NL">>}

\* dinner 90, x 60 by default, sanchaek 45, movie 120, bada sanchaek
\* (바다 산책) 90 by its 바.
TimelineActivities ==
    {Dinner, <<"x">>, <<"sanchaek">>, <<"movie">>, <<"bada", "SP", "sanchaek">>}

\* Blocks with a link line, and one without.
TimelineBlocks ==
    {CourseBlock(<<"a">>, a, FALSE, "line") : a \in TimelineActivities}
    \cup {CourseBlock(<<"k">>, <<"x">>, FALSE, "none")}

TimelineTexts == BlockTexts(TimelineBlocks, MaxStops)

\* 17:00 (the default), 23:00, 09:30, and 24:00 (what "오후 12시" extracts to).
StartTimes == {Time(17, 0), Time(23, 0), Time(9, 30), Time(24, 0)}

\* The decimal digits of n < 100.
Digits(n) == IF n < 10 THEN <<ToString(n)>> ELSE <<ToString(n \div 10), ToString(n % 10)>>

DateParts ==
    {<<>>, <<"oneul", "SP">>, <<"naeil", "SP">>, <<"more", "SP">>,
     <<"daeumju", "SP", "to", "yoil", "SP">>, <<"ibeonju", "SP", "su", "yoil", "SP">>,
     <<"3", "wol", "SP", "1", "5", "il", "SP">>,
     <<"2", "0", "2", "5", "nyeon", "SP", "1", "2", "wol", "2", "4", "il", "SP">>}

DayParts == {<<>>, <<"ojeon", "SP">>, <<"ohu", "SP">>, <<"jeonyeok", "SP">>}

Minutes == {0, 5, 30, 59}

\* "H시", "H시 M분", "H시M분" (two digits), "H:MM"
ClockParts ==
    {<<>>}
    \cup {Digits(h) \o <<"si">> : h \in 0..MaxHour}
    \cup {Digits(h) \o <<"si", "SP">> \o Digits(m) \o <<"bun">> :
            h \in 0..MaxHour, m \in Minutes}
    \cup {Digits(h) \o <<"si", ToString(m \div 10), ToString(m % 10), "bun">> :
            h \in 0..MaxHour, m \in Minutes}
    \cup {Digits(h) \o <<"COLON", ToString(m \div 10), ToString(m % 10)>> :
            h \in 0..MaxHour, m \in Minutes}

\* Requests: a date phrase, a part-of-day word, a clock phrase.
Prompts == {d \o p \o c : d \in DateParts, p \in DayParts, c \in ClockParts}

\* "내일 저녁 7시" and "다른 카페로 바꿔주세요" (dareun 다른, bakkwo 바꿔).
SessionPrompts ==
    {<<"naeil", "SP", "jeonyeok", "SP", "7", "si">>,
     <<"dareun", "SP", "cafe", "SP", "bakkwo">>}

\* A response without any course, and a course of one block.
SessionResponses ==
    {<<"x", "NL">>, CourseBlock(<<"a">>, Dinner, TRUE, "line")}

\* ------------------------------------------------------------------------
\* State machines
\* ------------------------------------------------------------------------

NoTimeline == [ok |-> TRUE, rows |-> <<>>]

\* The locals of a script run that has not reached the pipeline.
NoPipeline ==
    /\ response' = <<>>
    /\ response_with_links' = <<>>
    /\ updated_response' = <<>>
    /\ fetched' = <<>>
    /\ sleeps' = <<>>
    /\ timeline' = NoTimeline

\* Session start: "messages" is not in st.session_state.
Init ==
    /\ pc = "start"
    /\ prompt = <<>>
    /\ today = 3
    /\ date_str = DateOffset(0)
    /\ time_str = Time(17, 0)
    /\ promptKind = "none"
    /\ response = <<>>
    /\ response_with_links = <<>>
    /\ updated_response = <<>>
    /\ fetched = <<>>
    /\ sleeps = <<>>
    /\ timeline = NoTimeline
    /\ messages = <<>>
    /\ last_recommendations = None

\* ["바꿔", "교체", "다른", "비싸", "너무", "별로"]
FeedbackKeywords == {"bakkwo", "gyoche", "dareun", "bissa", "neomu", "byeollo"}

\* any(keyword in prompt.lower() for keyword in [...])
HasFeedback(p) == \E i \in 1..Len(p) : LowerTok(p[i]) \in FeedbackKeywords

\* Python truth of last_recommendations: None and "" are false.
Truthy(text) == text # None /\ text # <<>>

\* The template the turn handler sends: the feedback prompt or the new one.
SelectPrompt(last, p) ==
    IF Truthy(last) /\ HasFeedback(p) THEN "revision" ELSE "fresh"

Turns == Cardinality({i \in 1..Len(messages) : messages[i].role = "user"})

\* The turn handler up to the model call.
TurnHead(p) ==
    /\ pc \in {"start", "turn", "aborted", "reset"}
    /\ Turns < MaxTurns
    /\ prompt' = p
    /\ \E dt \in {extract_date_time(p, today)} :
          /\ date_str' = dt.date
          /\ time_str' = dt.time
    /\ promptKind' = SelectPrompt(last_recommendations, p)
    /\ UNCHANGED today

\* A turn whose model call answers r, the listing page of course i giving
\* fetch[i].
Turn(p, r, fetch) ==
    /\ TurnHead(p)
    /\ response' = r
    /\ response_with_links' = update_place_links(r)
    /\ \E rated \in {update_place_ratings(response_with_links', fetch)} :
          /\ updated_response' = rated.text
          /\ fetched' = rated.fetched
          /\ sleeps' = rated.sleeps
    /\ timeline' = create_timeline(updated_response', time_str')
    /\ messages' = messages \o
          <<[role |-> "user", content |-> p, timeline |-> NoTimeline],
            [role |-> "assistant", content |-> updated_response',
             timeline |-> timeline']>>
    /\ last_recommendations' = updated_response'
    /\ pc' = "turn"

\* A turn whose model call raises: the script run ends there.
TurnAbort(p) ==
    /\ TurnHead(p)
    /\ NoPipeline
    /\ messages' = Append(messages, [role |-> "user", content |-> p, timeline |-> NoTimeline])
    /\ UNCHANGED last_recommendations
    /\ pc' = "aborted"

\* Reset without the line that clears last_recommendations.
ResetKeepsRecommendations ==
    /\ pc = "turn"
    /\ messages # <<>>
    /\ messages' = <<>>
    /\ prompt' = <<>>
    /\ date_str' = DateOffset(0)
    /\ time_str' = Time(17, 0)
    /\ promptKind' = "none"
    /\ NoPipeline
    /\ UNCHANGED <<today, last_recommendations>>
    /\ pc' = "reset"

\* The "다시 짜기" button, drawn by a run that reached the buttons with
\* messages in the session.
Reset ==
    /\ pc = "turn"
    /\ messages # <<>>
    /\ messages' = <<>>
    /\ last_recommendations' = None
    /\ prompt' = <<>>
    /\ date_str' = DateOffset(0)
    /\ time_str' = Time(17, 0)
    /\ promptKind' = "none"
    /\ NoPipeline
    /\ UNCHANGED today
    /\ pc' = "reset"

Next ==
    \/ \E p \in SessionPrompts, r \in SessionResponses :
          \E fetch \in [1..Len(Courses(update_place_links(r))) -> FetchOutcomes] :
              Turn(p, r, fetch)
    \/ \E p \in SessionPrompts : TurnAbort(p)
    \/ Reset

Spec == Init /\ [][Next]_vars

\* The pipeline of one turn, stage by stage, over the model responses.
InitPipeline ==
    /\ pc = "links"
    /\ prompt = <<>>
    /\ today = 3
    /\ date_str = DateOffset(0)
    /\ time_str = Time(17, 0)
    /\ promptKind = "fresh"
    /\ response \in ResponseTexts
    /\ response_with_links = <<>>
    /\ updated_response = <<>>
    /\ fetched = <<>>
    /\ sleeps = <<>>
    /\ timeline = NoTimeline
    /\ messages = <<>>
    /\ last_recommendations = None

DoLinks ==
    /\ pc = "links"
    /\ response_with_links' = update_place_links(response)
    /\ pc' = "ratings"
    /\ UNCHANGED <<prompt, today, date_str, time_str, promptKind, response,
                   updated_response, fetched, sleeps, timeline, messages,
                   last_recommendations>>

DoRatings ==
    /\ pc = "ratings"
    /\ \E fetch \in [1..Len(Courses(response_with_links)) -> FetchOutcomes] :
          \E rated \in {update_place_ratings(response_with_links, fetch)} :
              /\ updated_response' = rated.text
              /\ fetched' = rated.fetched
              /\ sleeps' = rated.sleeps
    /\ pc' = "timeline"
    /\ UNCHANGED <<prompt, today, date_str, time_str, promptKind, response,
                   response_with_links, timeline, messages, last_recommendations>>

DoTimeline ==
    /\ pc = "timeline"
    /\ timeline' = create_timeline(updated_response, time_str)
    /\ pc' = "done"
    /\ UNCHANGED <<prompt, today, date_str, time_str, promptKind, response,
                   response_with_links, updated_response, fetched, sleeps,
                   messages, last_recommendations>>

NextPipeline == DoLinks \/ DoRatings \/ DoTimeline

SpecPipeline == InitPipeline /\ [][NextPipeline]_vars

\* create_timeline over itinerary texts and start times.
InitTimeline ==
    /\ pc = "timeline"
    /\ prompt = <<>>
    /\ today = 3
    /\ date_str = DateOffset(0)
    /\ time_str \in StartTimes
    /\ promptKind = "fresh"
    /\ response = <<>>
    /\ response_with_links = <<>>
    /\ updated_response \in TimelineTexts
    /\ fetched = <<>>
    /\ sleeps = <<>>
    /\ timeline = NoTimeline
    /\ messages = <<>>
    /\ last_recommendations = None

NextTimeline == DoTimeline

SpecTimeline == InitTimeline /\ [][NextTimeline]_vars

\* extract_date_time over requests and weekdays.
InitDateTime ==
    /\ pc = "extract"
    /\ prompt \in Prompts
    /\ today \in 0..6
    /\ date_str = DateOffset(0)
    /\ time_str = Time(17, 0)
    /\ promptKind = "none"
    /\ response = <<>>
    /\ response_with_links = <<>>
    /\ updated_response = <<>>
    /\ fetched = <<>>
    /\ sleeps = <<>>
    /\ timeline = NoTimeline
    /\ messages = <<>>
    /\ last_recommendations = None

DoExtract ==
    /\ pc = "extract"
    /\ \E dt \in {extract_date_time(prompt, today)} :
          /\ date_str' = dt.date
          /\ time_str' = dt.time
    /\ pc' = "extracted"
    /\ UNCHANGED <<prompt, today, promptKind, response, response_with_links,
                   updated_response, fetched, sleeps, timeline, messages,
                   last_recommendations>>

NextDateTime == DoExtract

SpecDateTime == InitDateTime /\ [][NextDateTime]_vars

\* ------------------------------------------------------------------------
\* Properties
\* ------------------------------------------------------------------------

RECURSIVE NonSplice(_, _)
\* The text outside link lines and rating lines: what follows a link or
\* rating marker up to the end of its line is left out (skip: inside one).
NonSplice(t, skip) ==
    IF t = <<>> THEN <<>>
    ELSE IF Head(t) \in {"LNK", "RAT"} THEN <<Head(t)>> \o NonSplice(Tail(t), TRUE)
    ELSE IF Head(t) = "NL" THEN <<"NL">> \o NonSplice(Tail(t), FALSE)
    ELSE IF skip THEN NonSplice(Tail(t), TRUE)
    ELSE <<Head(t)>> \o NonSplice(Tail(t), FALSE)

\* C1: the enriched text differs from the model's text only inside link and
\* rating lines, and a response without a course header is shown unchanged.
C1_OnlySplicesChange ==
    pc \in {"timeline", "done"} =>
        /\ NonSplice(updated_response, FALSE) = NonSplice(response, FALSE)
        /\ (~Has(response, "CN") => updated_response = response)

\* C2: "내일 저녁 7시" extracts to tomorrow, 19:00.
C2_TomorrowEvening ==
    (pc = "extracted" /\ prompt = <<"naeil", "SP", "jeonyeok", "SP", "7", "si">>) =>
        /\ date_str = DateOffset(1)
        /\ time_str = Time(19, 0)

\* C3: "오후 H시 M분", H in 1..11, extracts to (H+12):M.
C3_AfternoonKeepsMinutes ==
    (pc = "extracted" /\ Has(prompt, "ohu") /\ Has(prompt, "bun")) =>
        \A d \in DateParts, h \in 1..11, m \in Minutes :
            prompt = d \o <<"ohu", "SP">> \o Digits(h) \o <<"si", "SP">>
                       \o Digits(m) \o <<"bun">>
            => time_str = Time(h + 12, m)

RECURSIVE SumDurations(_, _)
\* The estimated durations of the first n places, summed.
SumDurations(places, n) ==
    IF n = 0 THEN 0 ELSE Duration(places[n].activity) + SumDurations(places, n - 1)

StartMinutes == time_str.hour * 60 + time_str.minute

C5_ElapsedNeverWraps ==
    (pc = "done" /\ timeline.ok) =>
        LET places == ParsePlaces(updated_response)
            rows == timeline.rows
        IN  /\ \A i \in 1..Len(rows) :
                  LET at == StartMinutes + SumDurations(places, i - 1)
                  IN  rows[i].time = Time(at \div 60, at % 60)
            /\ \A i \in 1..Len(rows) : \A j \in i..Len(rows) :
                  rows[i].time.hour * 60 + rows[i].time.minute
                    <= rows[j].time.hour * 60 + rows[j].time.minute

\* The display name of a course block.
BlockName(c) == Strip(Group(c, NameRe, Search(c, NameRe, 1), 1))

\* r'🔗 네이버 링크:([^\n]*)': a link line and what it holds.
AnyLinkRe == <<Lit("LNK"), Rep({"NL"}, TRUE, 0, -1, TRUE, 1)>>

\* What the link lines of a course block hold, stripped.
BlockLinks(c) ==
    LET ms == FindAll(c, AnyLinkRe, 1)
    IN  {Strip(Group(c, AnyLinkRe, ms[i], 1)) : i \in 1..Len(ms)}

\* C6: after update_place_links every course block with a display name has
\* a link line, holding the map-search url of its cleaned name.
C6_EveryBlockLinked ==
    pc \in {"ratings", "timeline", "done"} =>
        \A i \in 1..Len(Courses(response_with_links)) :
            LET c == Courses(response_with_links)[i]
            IN  Search(c, NameRe, 1).ok =>
                    BlockLinks(c) = {search_place(BlockName(c))}

\* Whether a turn had completed, since the start or the last reset, before
\* the request of the turn that ran last.
PreviousItinerary ==
    \E i \in 1..Len(messages) :
        /\ messages[i].role = "assistant"
        /\ \E j \in (i + 1)..Len(messages) : messages[j].role = "user"

\* C7: the revision template is selected exactly when a previous itinerary
\* exists and the request holds a trigger word.
C7_RevisionIff ==
    pc \in {"turn", "aborted"} =>
        (promptKind = "revision" <=> (PreviousItinerary /\ HasFeedback(prompt)))

Assistants == {i \in 1..Len(messages) : messages[i].role = "assistant"}

\* C8: last_recommendations is absent when no turn has succeeded since the
\* start or the last reset, else the enriched text of the last successful
\* turn; a reset leaves the history empty.
C8_LastRecommendations ==
    /\ Assistants = {} => last_recommendations = None
    /\ Assistants # {} =>
          last_recommendations =
              messages[CHOOSE i \in Assistants : \A j \in Assistants : j <= i].content
    /\ pc = "turn" => last_recommendations = updated_response
    /\ pc = "reset" => messages = <<>> /\ last_recommendations = None

\* A turn aborted after a successful one: the recommendation is still there.
C8_Witness ==
    /\ pc = "aborted"
    /\ Assistants # {}
    /\ last_recommendations # None
    /\ messages[Len(messages)].role = "user"

\* C9: when every block has a name and an activity line, the parser gives
\* one triple per block, in order, with that block's link or "#".
C9_OneTriplePerBlock ==
    LET blocks == Courses(updated_response)
    IN  (/\ pc = "done"
         /\ timeline.ok
         /\ updated_response = Concat(blocks)
         /\ \A i \in 1..Len(blocks) : Search(blocks[i], BackupPlaceRe, 1).ok)
        =>
        /\ Len(timeline.rows) = Len(blocks)
        /\ \A i \in 1..Len(blocks) :
              /\ timeline.rows[i].name = BlockName(blocks[i])
              /\ {timeline.rows[i].link} =
                    (IF Has(blocks[i], "LNK") THEN BlockLinks(blocks[i])
                     ELSE {<<"HASH">>})

\* Whether update_place_links rewrote the link line of course i.
Rewritten(i) == Courses(response_with_links)[i] # Courses(response)[i]

\* C10 (first two parts): no fetch for a block whose link line was
\* rewritten, and update_place_ratings leaves such a block as it was.
RewrittenBlocksUntouched ==
    /\ \A k \in 1..Len(fetched) : ~Rewritten(fetched[k].course)
    /\ \A i \in 1..Len(Courses(response_with_links)) :
          Rewritten(i) =>
              Courses(updated_response)[i] = Courses(response_with_links)[i]

\* C10: no fetch for, and no change to, a block whose link line was
\* rewritten, and the delay runs once per block, in block order.
C10_DeadFetchOneDelayPerBlock ==
    pc \in {"timeline", "done"} =>
        /\ RewrittenBlocksUntouched
        /\ sleeps = [i \in 1..Len(Courses(response_with_links)) |-> i]

====
